---- MODULE Spec2Model ----
(***************************************************************************)
(* stun-timing (main.go): main parses the flags, runSTUNRequests dials the *)
(* STUN server and issues runCount binding requests one after another,     *)
(* printResults reports counts and percentiles of the successful times and *)
(* printASCIIHistogram buckets them into numBuckets bins.                  *)
(***************************************************************************)
EXTENDS Integers, Sequences, FiniteSets, TLC

\* ------------------------------------------------------------- bounds
\* Largest -runs value explored (the flag also accepts negative numbers).
MaxRuns == 3
\* Longest Outcome Sequence handed to printResults in SpecStats.
MaxLen == 5
\* Longest Outcome Sequence handed to the reporters in SpecHist.
MaxHistLen == 4

\* cfg.runCount as parsed by flag.Int: any int, negative ones included.
RunCounts == (0 - 1)..MaxRuns
\* Elapsed microseconds a probe of the full run may measure.
Times == {0, 100}
\* Elapsed microseconds in the Outcome Sequences of SpecStats.
StatTimes == {10, 20, 30, 40, 50, 100, 200}
\* Elapsed microseconds in the Outcome Sequences of SpecHist.  44 - 0 gives a
\* bucket width float64 cannot represent exactly (2.2), 100 - 0 one it can (5).
HistTimes == {0, 33, 42, 44, 100}

\* ------------------------------------------------------------ program
\* The nil error.
Nil == "nil"
\* A non-nil error value.
Err == "err"

numBuckets == 20
barWidth == 40

\* What one c.Do(message, callback) can do:
\*   "ok"        the callback receives a response carrying XOR-MAPPED-ADDRESS;
\*   "timeout"   the callback receives an event with res.Error set (the
\*               transaction timed out, or the transport failed on read);
\*   "malformed" the callback receives a response from which
\*               xorAddr.GetFrom fails;
\*   "startErr"  the request could not be started or written: Do itself
\*               returns the error.
Events == {"ok", "timeout", "malformed", "startErr"}

\* The error c.Do returns.  The callback has no return value: its two early
\* returns (res.Error != nil, GetFrom failing) leave Do's result nil.
DoReturn(ev) == IF ev = "startErr" THEN Err ELSE Nil

\* Whether the callback reaches fmt.Printf("Your IP is ...") for probe i.
CallbackPrintsIP(ev, i) == ev = "ok" /\ i = 0

\* Faulty variant: every outcome is written to slot 0.
StoreResultFirst(rs, i, r) == [rs EXCEPT ![1] = r]

\* results[i] = result{time: elapsed, err: err}; Go's index i is i + 1 here.
StoreResult(rs, i, r) == [rs EXCEPT ![i + 1] = r]

\* Faulty variant: the deferred Close is missing.
DeferredCloseSkipped(c) == c

\* defer c.Close(): runs when runSTUNRequests returns or panics after the dial.
DeferredClose(c) == IF c = "open" THEN "closed" ELSE c

\* The loop condition i < cfg.runCount.
LoopGuard(i, n) == i < n

VARIABLES
    pc,             \* where main is: "parse", "dial", "alloc", "loop",
                    \* "inflight", "returned", "printed", "exit"
    runCount,       \* cfg.runCount
    conn,           \* the client c: "none", "open", "closed"
    opens,          \* how many times a connection was opened
    closes,         \* how many times c.Close() ran
    i,              \* the loop variable of runSTUNRequests
    results,        \* the results slice
    probeLog,       \* per completed probe: what happened to it
    inFlight,       \* transactions started and not yet completed
    usedClosed,     \* a probe was started on a connection that was not open
    ipShown,        \* how many "Your IP is" lines were printed
    progress,       \* bar.Add(1) calls
    statsOut,       \* the lines printResults printed
    successfulTimes,\* printResults' successfulTimes
    errorCount,     \* printResults' errorCount
    histTimes,      \* printASCIIHistogram's successfulTimes
    buckets,        \* printASCIIHistogram's buckets
    histOut,        \* the lines printASCIIHistogram printed
    exitCode,       \* process exit status, -1 while running
    panicMsg        \* the runtime panic that ended the process, or Nil

vars == <<pc, runCount, conn, opens, closes, i, results, probeLog, inFlight,
          usedClosed, ipShown, progress, statsOut, successfulTimes, errorCount,
          histTimes, buckets, histOut, exitCode, panicMsg>>

runVars == <<i, results, probeLog, inFlight, usedClosed, ipShown, progress>>
reportVars == <<statsOut, successfulTimes, errorCount, histTimes, buckets, histOut>>

NoBuckets == [b \in 0..(numBuckets - 1) |-> 0]

\* The process right after parseFlags.
Init ==
    /\ pc = "parse"
    /\ runCount \in RunCounts
    /\ conn = "none"
    /\ opens = 0
    /\ closes = 0
    /\ i = 0
    /\ results = <<>>
    /\ probeLog = <<>>
    /\ inFlight = 0
    /\ usedClosed = FALSE
    /\ ipShown = 0
    /\ progress = 0
    /\ statsOut = <<>>
    /\ successfulTimes = <<>>
    /\ errorCount = 0
    /\ histTimes = <<>>
    /\ buckets = NoBuckets
    /\ histOut = <<>>
    /\ exitCode = 0 - 1
    /\ panicMsg = Nil

\* main's error branch: print to stderr, os.Exit(1).
ExitOne ==
    /\ pc' = "exit"
    /\ exitCode' = 1

\* stun.ParseURI("stun:" + cfg.stunHost).
ParseURI ==
    /\ pc = "parse"
    /\ \E ok \in BOOLEAN :
        IF ok THEN pc' = "dial" /\ exitCode' = exitCode
              ELSE ExitOne
    /\ UNCHANGED <<runCount, conn, opens, closes, runVars, reportVars, panicMsg>>

\* stun.DialURI(u, ...), and on success defer c.Close().
DialURI ==
    /\ pc = "dial"
    /\ \E ok \in BOOLEAN :
        IF ok THEN /\ pc' = "alloc"
                   /\ conn' = "open"
                   /\ opens' = opens + 1
                   /\ exitCode' = exitCode
              ELSE /\ ExitOne
                   /\ UNCHANGED <<conn, opens>>
    /\ UNCHANGED <<runCount, closes, runVars, reportVars, panicMsg>>

\* results := make([]result, cfg.runCount): a negative length panics, the
\* deferred Close runs and the process dies with status 2.
AllocResults ==
    /\ pc = "alloc"
    /\ IF runCount < 0
          THEN /\ pc' = "exit"
               /\ panicMsg' = "makeslice: len out of range"
               /\ exitCode' = 2
               /\ conn' = DeferredClose(conn)
               /\ closes' = closes + 1
               /\ UNCHANGED results
          ELSE /\ pc' = "loop"
               /\ results' = [k \in 1..runCount |-> [time |-> 0, err |-> Nil]]
               /\ UNCHANGED <<conn, closes, exitCode, panicMsg>>
    /\ UNCHANGED <<runCount, opens, i, probeLog, inFlight, usedClosed, ipShown,
                   progress, reportVars>>

\* Loop head and the first half of c.Do: the request is written and the
\* caller blocks until the callback has run.
StartProbe ==
    /\ pc = "loop"
    /\ LoopGuard(i, runCount)
    /\ pc' = "inflight"
    /\ inFlight' = inFlight + 1
    /\ usedClosed' = (usedClosed \/ conn # "open")
    /\ UNCHANGED <<runCount, conn, opens, closes, i, results, probeLog, ipShown,
                   progress, reportVars, exitCode, panicMsg>>

\* The second half of c.Do and the rest of the loop body: the callback runs,
\* Do returns, the elapsed time and Do's error are stored, the bar advances.
CompleteProbe ==
    /\ pc = "inflight"
    /\ \E ev \in Events, elapsed \in Times :
        LET err == DoReturn(ev) IN
        /\ ipShown' = IF CallbackPrintsIP(ev, i) THEN ipShown + 1 ELSE ipShown
        /\ results' = StoreResult(results, i, [time |-> elapsed, err |-> err])
        /\ probeLog' = Append(probeLog, [event |-> ev, elapsed |-> elapsed, ret |-> err])
    /\ inFlight' = inFlight - 1
    /\ progress' = progress + 1
    /\ i' = i + 1
    /\ pc' = "loop"
    /\ UNCHANGED <<runCount, conn, opens, closes, usedClosed, reportVars,
                   exitCode, panicMsg>>

\* The loop ends: return results, nil; the deferred c.Close() runs.
ReturnResults ==
    /\ pc = "loop"
    /\ ~LoopGuard(i, runCount)
    /\ conn' = DeferredClose(conn)
    /\ closes' = closes + 1
    /\ pc' = "returned"
    /\ UNCHANGED <<runCount, opens, runVars, reportVars, exitCode, panicMsg>>

\* ------------------------------------------------------- printResults
\* Faulty variant: no outcome is taken for a failure.
StatFailedNever(r) == FALSE

\* r.err != nil (line 104): the outcome is counted as a failure.
StatFailed(r) == r.err # Nil

\* The elapsed times of the outcomes printResults keeps, in probe order.
RECURSIVE StatSuccesses(_)
StatSuccesses(rs) ==
    IF rs = <<>> THEN <<>>
    ELSE IF StatFailed(Head(rs)) THEN StatSuccesses(Tail(rs))
    ELSE <<Head(rs).time>> \o StatSuccesses(Tail(rs))

\* errorCount++ for each outcome with an error.
RECURSIVE StatErrors(_)
StatErrors(rs) ==
    IF rs = <<>> THEN 0
    ELSE (IF StatFailed(Head(rs)) THEN 1 ELSE 0) + StatErrors(Tail(rs))

\* Faulty variant: the empty check is missing.
NoSuccessNever(s) == FALSE

\* len(successfulTimes) == 0: report "No successful requests" and return.
NoSuccess(s) == Len(s) = 0

\* Insert v into the ascending sequence s.
RECURSIVE Insert(_, _)
Insert(v, s) ==
    IF s = <<>> THEN <<v>>
    ELSE IF v < Head(s) THEN <<v>> \o s
    ELSE <<Head(s)>> \o Insert(v, Tail(s))

\* sort.Slice(successfulTimes, less by value): the ascending permutation.
RECURSIVE SortAsc(_)
SortAsc(s) == IF s = <<>> THEN <<>> ELSE Insert(Head(s), SortAsc(Tail(s)))

\* Faulty variant: the index is truncated instead of rounded.
MathRoundDown(num, den) == num \div den

\* math.Round of the non-negative quotient num / den: the nearest integer,
\* halves away from zero.  float64(len-1) * float64(p) is exact and its
\* division by 100 is correctly rounded, which never crosses a half.
MathRound(num, den) == (2 * num + den) \div (2 * den)

\* index := int(math.Round(float64(len(sorted)-1) * float64(p) / 100)).
percentileIndex(n, p) == MathRound((n - 1) * p, 100)

\* Go's bounds check on s[k], k counted from 0.
InBounds(s, k) == k >= 0 /\ k < Len(s)

\* return sorted[index].
percentile(sorted, p) == sorted[percentileIndex(Len(sorted), p) + 1]

Line(text, val) == [text |-> text, val |-> val]

\* The lines from "Results:" to the table header.
ResultsHeader(sorted, errs) ==
    << Line("Successful requests", Len(sorted)), Line("Failed requests", errs) >>

\* The five table rows; p0 and p100 index the slice directly.
ResultsTable(sorted) ==
    << Line("p0", sorted[1]),
       Line("p25", percentile(sorted, 25)),
       Line("p50", percentile(sorted, 50)),
       Line("p75", percentile(sorted, 75)),
       Line("p100", sorted[Len(sorted)]) >>

\* Every index the table reads is inside the slice.
TableInBounds(sorted) ==
    /\ InBounds(sorted, 0)
    /\ \A p \in {25, 50, 75} : InBounds(sorted, percentileIndex(Len(sorted), p))
    /\ InBounds(sorted, Len(sorted) - 1)

\* The "First request time" line: printed inside the loop, for index 0 only
\* and only when that outcome carries no error.
FirstLine(rs) ==
    IF rs # <<>> /\ ~StatFailed(rs[1])
       THEN << Line("First request time", rs[1].time) >>
       ELSE <<>>

\* printResults(results).
printResults ==
    /\ pc = "returned"
    /\ \E succ \in {StatSuccesses(results)} :
       \E sorted \in {SortAsc(succ)} :
       /\ errorCount' = StatErrors(results)
       /\ IF NoSuccess(succ)
             THEN /\ successfulTimes' = succ
                  /\ statsOut' = FirstLine(results)
                                    \o << Line("No successful requests", 0) >>
                  /\ pc' = "printed"
                  /\ UNCHANGED <<exitCode, panicMsg>>
             ELSE /\ successfulTimes' = sorted
                  /\ IF TableInBounds(sorted)
                        THEN /\ statsOut' = FirstLine(results)
                                               \o ResultsHeader(sorted, errorCount')
                                               \o ResultsTable(sorted)
                             /\ pc' = "printed"
                             /\ UNCHANGED <<exitCode, panicMsg>>
                        ELSE /\ statsOut' = FirstLine(results)
                                               \o ResultsHeader(sorted, errorCount')
                             /\ pc' = "exit"
                             /\ exitCode' = 2
                             /\ panicMsg' = "index out of range"
    /\ UNCHANGED <<runCount, conn, opens, closes, runVars, histTimes, buckets, histOut>>

\* ------------------------------------------------ printASCIIHistogram
\* r.err == nil (line 146): the outcome's time is kept.
HistSucceeded(r) == r.err = Nil

\* The elapsed times printASCIIHistogram keeps, in probe order.
RECURSIVE HistSuccesses(_)
HistSuccesses(rs) ==
    IF rs = <<>> THEN <<>>
    ELSE IF HistSucceeded(Head(rs)) THEN <<Head(rs).time>> \o HistSuccesses(Tail(rs))
    ELSE HistSuccesses(Tail(rs))

\* The minTime / maxTime scan of lines 156-164: the least and the greatest
\* element of the non-empty successfulTimes.
minTime(s) ==
    LET S == {s[k] : k \in 1..Len(s)} IN CHOOSE m \in S : \A x \in S : m <= x

maxTime(s) ==
    LET S == {s[k] : k \in 1..Len(s)} IN CHOOSE m \in S : \A x \in S : m >= x

\* 2^n.
RECURSIVE Pow2(_)
Pow2(n) == IF n = 0 THEN 1 ELSE 2 * Pow2(n - 1)

\* The largest j with 2^j <= k (k >= 1).
RECURSIVE Log2Floor(_)
Log2Floor(k) == IF k < 2 THEN 0 ELSE 1 + Log2Floor(k \div 2)

\* float64 arithmetic of the bucket width.  bucketSize is the double nearest
\* to d / 20 (d = maxTime - minTime >= 1).  With 2^e <= d/20 < 2^(e+1) its
\* 53-bit significand is d * 2^(50-e) / 5 rounded to an integer, so the
\* rounding is decided by the remainder of d * 2^(50-e) modulo 5.
\* WidthExp5(d) is e + 5, which is >= 0 for every d >= 1.
RECURSIVE WidthExpFrom(_, _)
WidthExpFrom(d, e5) ==
    IF 32 * d < 40 * Pow2(e5) THEN e5 ELSE WidthExpFrom(d, e5 + 1)

WidthExp5(d) == WidthExpFrom(d, 0)

\* (d * 2^(50-e)) mod 5; 2^n mod 5 has period 4 and 50 - e = 55 - WidthExp5(d).
WidthRem(d) == ((d % 5) * Pow2((55 - WidthExp5(d)) % 4)) % 5

\* bucketSize is above d/20 by (5 - r)/5 of a unit in the last place when the
\* remainder r is 3 or 4, below it by r/5 when r is 1 or 2, exact when r = 0.
WidthRoundedUp(d) == WidthRem(d) \in {3, 4}
WidthRoundedDown(d) == WidthRem(d) \in {1, 2}

\* An exact integer result k >= 1 computed with the rounded width lands a
\* relative a / (5 * significand) away from k, on the side of the doubles
\* just under k; it is rounded to the double under k when that distance
\* exceeds half the spacing of the doubles under k (which halves at a power
\* of two).
RoundsUnder(k, a, d) ==
    LET j == Log2Floor(k)
        f == IF k = Pow2(j) THEN 16 ELSE 8
    IN  f * k * a * Pow2(WidthExp5(d)) > d * Pow2(j + 5)

\* int(float64(x) / bucketSize) for d >= 1, 0 <= x <= d: the truncated
\* quotient 20x/d, one less when 20x/d is an integer that the rounded-up
\* width pushes to the double under it.
FloatDivTrunc(x, d) ==
    LET q == (numBuckets * x) \div d
    IN  IF /\ (numBuckets * x) % d = 0
           /\ q >= 1
           /\ WidthRoundedUp(d)
           /\ RoundsUnder(q, 5 - WidthRem(d), d)
        THEN q - 1 ELSE q

\* int64(float64(n) * bucketSize) for d >= 1, 0 <= n <= 20: the truncated
\* product n*d/20, one less when it is an integer that the rounded-down
\* width pushes to the double under it.
FloatMulTrunc(n, d) ==
    LET q == (n * d) \div numBuckets
    IN  IF /\ (n * d) % numBuckets = 0
           /\ q >= 1
           /\ WidthRoundedDown(d)
           /\ RoundsUnder(q, WidthRem(d), d)
        THEN q - 1 ELSE q

\* int(NaN): with maxTime = minTime, float64(t-minTime) / bucketSize is
\* 0.0 / 0.0.  Go leaves the conversion of a value the type cannot represent
\* implementation-dependent: amd64 yields the smallest int64, arm64 and wasm
\* yield 0, riscv64 the largest int64.  The two extremes are scaled down to
\* 32-bit integers; only their being outside 0..numBuckets matters.
NaNToInt == {0 - Pow2(30), 0, Pow2(30)}

\* Faulty variant: the boundary sample is not clamped.
ClampBucketNever(b) == b

\* if bucket == numBuckets { bucket-- }.
ClampBucket(b) == IF b = numBuckets THEN b - 1 ELSE b

\* The bucket lines 172-175 compute for sample t; nan is this build's
\* int(NaN).
BucketOf(t, lo, hi, nan) ==
    ClampBucket(IF hi = lo THEN nan ELSE FloatDivTrunc(t - lo, hi - lo))

\* The bucket computed for each sample, in order.
RECURSIVE BucketsOf(_, _, _, _)
BucketsOf(ts, lo, hi, nan) ==
    IF ts = <<>> THEN <<>>
    ELSE <<BucketOf(Head(ts), lo, hi, nan)>> \o BucketsOf(Tail(ts), lo, hi, nan)

\* The bounds check of buckets[bucket]++.
BucketInBounds(b) == b >= 0 /\ b < numBuckets

\* buckets[bucket]++.
Increment(bk, b) == [bk EXCEPT ![b] = @ + 1]

\* The loop of lines 171-177 over the computed buckets bs: it counts until a
\* bucket index is out of range, where the runtime panics.
RECURSIVE CountInto(_, _)
CountInto(bk, bs) ==
    IF bs = <<>> \/ ~BucketInBounds(Head(bs)) THEN bk
    ELSE CountInto(Increment(bk, Head(bs)), Tail(bs))

\* Whether that loop panics.
IndexPanics(bs) == \E k \in 1..Len(bs) : ~BucketInBounds(bs[k])

\* The largest bucket count (the scan of lines 180-185 starts from 0).
maxCount(bk) ==
    LET S == {bk[b] : b \in 0..(numBuckets - 1)} \cup {0}
    IN  CHOOSE m \in S : \A x \in S : m >= x

\* One printed line of bucket b: its bounds, the bar length and the count.
HistLine(b, bk, lo, d, mc) ==
    [ start |-> (IF d = 0 THEN 0 ELSE FloatMulTrunc(b, d)) + lo,
      end   |-> (IF d = 0 THEN 0 ELSE FloatMulTrunc(b + 1, d)) + lo,
      bar   |-> (bk[b] * barWidth) \div mc,
      count |-> bk[b] ]

\* The print loop of lines 189-194.
RECURSIVE HistLines(_, _, _, _, _)
HistLines(b, bk, lo, d, mc) ==
    IF b = numBuckets THEN <<>>
    ELSE <<HistLine(b, bk, lo, d, mc)>> \o HistLines(b + 1, bk, lo, d, mc)

\* printASCIIHistogram(results), then main returns.
printASCIIHistogram ==
    /\ pc = "printed"
    /\ \E times \in {HistSuccesses(results)} :
       /\ histTimes' = times
       /\ IF Len(times) = 0
             THEN /\ UNCHANGED <<buckets, histOut, panicMsg>>
                  /\ exitCode' = 0
             ELSE \E nan \in NaNToInt, lo \in {minTime(times)}, hi \in {maxTime(times)} :
                  \E bs \in {BucketsOf(times, lo, hi, nan)} :
                  \E bk \in {CountInto(NoBuckets, bs)} :
                  /\ buckets' = bk
                  /\ IF IndexPanics(bs)
                        THEN /\ histOut' = <<>>
                             /\ exitCode' = 2
                             /\ panicMsg' = "index out of range"
                        ELSE /\ \E top \in {maxCount(bk)} :
                                  histOut' = HistLines(0, bk, lo, hi - lo, top)
                             /\ exitCode' = 0
                             /\ UNCHANGED panicMsg
    /\ pc' = "exit"
    /\ UNCHANGED <<runCount, conn, opens, closes, runVars, statsOut,
                   successfulTimes, errorCount>>

\* -------------------------------------------------------------- specs
Next ==
    \/ ParseURI
    \/ DialURI
    \/ AllocResults
    \/ StartProbe
    \/ CompleteProbe
    \/ ReturnResults
    \/ printResults
    \/ printASCIIHistogram

\* The whole program, from the parsed flags to the exit.
Spec == Init /\ [][Next]_vars

\* The Outcome Sequences of length at most n whose successful times are in T.
\* A failed outcome's time is read by neither reporter; it is kept at 0.
Outcomes(T) == {[time |-> t, err |-> Nil] : t \in T} \cup {[time |-> 0, err |-> Err]}

SeqsUpTo(S, n) == UNION {[1..k -> S] : k \in 0..n}

\* A probe that produced outcome r.
ProbeOf(r) ==
    [event |-> IF r.err = Nil THEN "ok" ELSE "startErr", elapsed |-> r.time, ret |-> r.err]

\* The process when runSTUNRequests has just returned the Outcome Sequence rs.
Returned(rs) ==
    /\ pc = "returned"
    /\ results = rs
    /\ runCount = Len(rs)
    /\ conn = "closed"
    /\ opens = 1
    /\ closes = 1
    /\ i = Len(rs)
    /\ probeLog = [k \in 1..Len(rs) |-> ProbeOf(rs[k])]
    /\ inFlight = 0
    /\ usedClosed = FALSE
    /\ ipShown = IF rs # <<>> /\ rs[1].err = Nil THEN 1 ELSE 0
    /\ progress = Len(rs)
    /\ statsOut = <<>>
    /\ successfulTimes = <<>>
    /\ errorCount = 0
    /\ histTimes = <<>>
    /\ buckets = NoBuckets
    /\ histOut = <<>>
    /\ exitCode = 0 - 1
    /\ panicMsg = Nil

InitStats == \E rs \in SeqsUpTo(Outcomes(StatTimes), MaxLen) : Returned(rs)

NextStats == printResults

\* printResults applied to every Outcome Sequence over StatTimes.
SpecStats == InitStats /\ [][NextStats]_vars

InitHist == \E rs \in SeqsUpTo(Outcomes(HistTimes), MaxHistLen) : Returned(rs)

NextHist ==
    \/ printResults
    \/ printASCIIHistogram

\* Both reporters applied to every Outcome Sequence over HistTimes.
SpecHist == InitHist /\ [][NextHist]_vars

\* ------------------------------------------------------------- claims
\* runSTUNRequests returned normally: the reporters have or will run.
RunReturned ==
    \/ pc \in {"returned", "printed"}
    \/ pc = "exit" /\ closes = 1 /\ runCount >= 0

\* printResults has run.
StatsRan == RunReturned /\ pc # "returned"

\* printASCIIHistogram has run.
HistRan == RunReturned /\ pc = "exit" /\ statsOut # <<>>

CountIn(s, v) == Cardinality({k \in 1..Len(s) : s[k] = v})

SameSamples(a, b) ==
    /\ Len(a) = Len(b)
    /\ \A k \in 1..Len(a) : CountIn(a, a[k]) = CountIn(b, a[k])

Ascending(s) == \A k \in 1..(Len(s) - 1) : s[k] <= s[k + 1]

\* The times of the outcomes of rs that carry no error, in order.
RECURSIVE NoErrorTimes(_)
NoErrorTimes(rs) ==
    IF rs = <<>> THEN <<>>
    ELSE (IF Head(rs).err = Nil THEN <<Head(rs).time>> ELSE <<>>) \o NoErrorTimes(Tail(rs))

\* The value printed in the table row named text.
Row(text) == (CHOOSE l \in {statsOut[k] : k \in 1..Len(statsOut)} : l.text = text).val

RowName(p) ==
    CASE p = 0 -> "p0" [] p = 25 -> "p25" [] p = 50 -> "p50"
      [] p = 75 -> "p75" [] p = 100 -> "p100"

\* C1: every probe whose binding request failed (timeout, transport error,
\* malformed response) is recorded with an error at its index; none is
\* recorded as a success.
C1_FailedProbesRecordedAsFailures ==
    \A k \in 1..Len(probeLog) :
        probeLog[k].event # "ok" => results[k].err # Nil

\* C2: when all successful times are equal (a single sample included) the
\* histogram makes no out-of-range bucket access and counts every sample in
\* bucket 0, leaving buckets 1..19 at 0.
C2_EqualSamplesFillBucketZero ==
    (HistRan /\ histTimes # <<>> /\ maxTime(histTimes) = minTime(histTimes)) =>
        /\ panicMsg = Nil
        /\ buckets[0] = Len(histTimes)
        /\ \A b \in 1..(numBuckets - 1) : buckets[b] = 0

\* C3: a connected run with run count R >= 0 issues exactly R probes, one at
\* a time, each started only after the previous one completed and was
\* recorded, failures notwithstanding; the returned sequence has length R and
\* entry k is the outcome of the k-th probe issued.
C3_SequentialProbesInOrder ==
    /\ inFlight \in {0, 1}
    /\ (pc = "inflight") <=> (inFlight = 1)
    /\ pc \in {"loop", "inflight"} =>
          /\ Len(results) = runCount
          /\ Len(probeLog) = i
          /\ progress = i
    /\ \A k \in 1..Len(probeLog) :
          /\ k <= Len(results)
          /\ results[k].time = probeLog[k].elapsed
          /\ results[k].err = probeLog[k].ret
    /\ RunReturned =>
          /\ Len(results) = runCount
          /\ Len(probeLog) = runCount
          /\ inFlight = 0

\* C3 witness: three probes, the first two failed, each outcome at its index.
C3_Witness ==
    /\ pc = "returned"
    /\ runCount = 3
    /\ probeLog[1].event = "timeout"
    /\ probeLog[2].event = "startErr"
    /\ probeLog[3].event = "ok"
    /\ results[1].time = 100
    /\ results[3].time = 0

\* C4: for a non-empty ascending list of n successful times and p in
\* {0, 25, 50, 75, 100} the reported percentile is the element at zero-based
\* index round((n-1)*p/100), halves away from zero; the index is within
\* 0..n-1, p0 is the minimum and p100 the maximum.
C4_PercentileRule ==
    (pc = "printed" /\ NoErrorTimes(results) # <<>>) =>
        LET s == successfulTimes
            n == Len(s)
        IN  /\ Ascending(s)
            /\ SameSamples(s, NoErrorTimes(results))
            /\ \A p \in {0, 25, 50, 75, 100} :
                  \E k \in 0..(n - 1) :
                      /\ 100 * k - 50 <= (n - 1) * p
                      /\ (n - 1) * p < 100 * k + 50
                      /\ Row(RowName(p)) = s[k + 1]
            /\ \A k \in 1..n : Row("p0") <= s[k] /\ s[k] <= Row("p100")
            /\ s = <<10, 20, 30, 40, 50>> =>
                  <<Row("p0"), Row("p25"), Row("p50"), Row("p75"), Row("p100")>>
                      = <<10, 20, 30, 40, 50>>
            /\ s = <<100, 200>> => Row("p25") = 100 /\ Row("p75") = 200
            /\ n = 1 => \A p \in {0, 25, 50, 75, 100} : Row(RowName(p)) = s[1]

\* C4 witness: the table of the unsorted successes 50, 10, 40, 20, 30.
C4_Witness ==
    /\ pc = "printed"
    /\ NoErrorTimes(results) = <<50, 10, 40, 20, 30>>
    /\ successfulTimes = <<10, 20, 30, 40, 50>>
    /\ Row("p25") = 20
    /\ Row("p75") = 40

\* The bucket of sample t by the rule of the histogram: the quotient
\* (t - lo) / ((hi - lo) / 20) in float64, truncated, with 20 taken as 19.
C5_Index(t, lo, hi) ==
    LET q == FloatDivTrunc(t - lo, hi - lo) IN IF q >= numBuckets THEN numBuckets - 1 ELSE q

\* The same quotient in exact arithmetic.
C5_ExactIndex(t, lo, hi) ==
    LET q == (numBuckets * (t - lo)) \div (hi - lo)
    IN  IF q >= numBuckets THEN numBuckets - 1 ELSE q

RECURSIVE SumBuckets(_)
SumBuckets(b) == IF b < 0 THEN 0 ELSE buckets[b] + SumBuckets(b - 1)

C6_AddressShownAtFirstSuccess ==
    ipShown = IF \E k \in 1..Len(probeLog) : probeLog[k].event = "ok" THEN 1 ELSE 0

\* C7: a setup error (unparseable host, failed dial) ends the process with
\* code 1 before any probe, table or histogram; once the connection is
\* established the process exits with code 0 however many probes fail.
C7_ExitCodes ==
    (pc = "exit" /\ runCount >= 0) =>
        IF opens = 0
           THEN /\ exitCode = 1
                /\ probeLog = <<>>
                /\ inFlight = 0
                /\ statsOut = <<>>
                /\ histOut = <<>>
           ELSE exitCode = 0

\* C8: when the Outcome Sequence holds no successful outcome (all probes
\* failed, or R = 0) printResults emits exactly "No successful requests",
\* the histogram emits nothing, and neither indexes an empty sample list.
C8_NoSuccessReport ==
    (StatsRan /\ \A k \in 1..Len(results) : results[k].err # Nil) =>
        /\ statsOut = << Line("No successful requests", 0) >>
        /\ successfulTimes = <<>>
        /\ histTimes = <<>>
        /\ histOut = <<>>
        /\ buckets = NoBuckets
        /\ panicMsg = Nil
        /\ pc = "exit" => exitCode = 0

\* C8 witness: two probes, both recorded with an error, reported and exited.
C8_Witness ==
    /\ pc = "exit"
    /\ runCount = 2
    /\ Len(results) = 2
    /\ results[1].err = Err
    /\ results[2].err = Err
    /\ statsOut = << Line("No successful requests", 0) >>
    /\ histOut = <<>>

\* C9: the connection is opened at most once per run, closed exactly once
\* on every exit path on which it was opened (normal or abnormal), never
\* used for a probe after being closed and never left open at exit; a failed
\* parse or dial leaves no connection open.
C9_ConnectionScoped ==
    /\ opens \in {0, 1}
    /\ closes <= opens
    /\ ~usedClosed
    /\ (conn = "none") <=> (opens = 0)
    /\ (conn = "open") <=> (opens = 1 /\ closes = 0)
    /\ (conn = "closed") <=> (opens = 1 /\ closes = 1)
    /\ pc = "inflight" => conn = "open"
    /\ pc \in {"returned", "printed"} => conn = "closed"
    /\ pc = "exit" => conn # "open" /\ closes = opens
    /\ (pc = "exit" /\ exitCode = 1) => opens = 0

\* C9 witness: the makeslice panic after a successful dial.
C9_Witness ==
    /\ pc = "exit"
    /\ exitCode = 2
    /\ panicMsg = "makeslice: len out of range"
    /\ opens = 1
    /\ closes = 1
    /\ conn = "closed"

\* C10: printResults partitions the Outcome Sequence exactly: each outcome
\* is counted as a success (no error) or as a failure, never both or
\* neither, so the two counts add up to R; the histogram consumes the same
\* successful subset.
C10_ExactPartition ==
    StatsRan =>
        /\ Len(successfulTimes) = Cardinality({k \in 1..Len(results) : results[k].err = Nil})
        /\ errorCount = Cardinality({k \in 1..Len(results) : results[k].err # Nil})
        /\ Len(successfulTimes) + errorCount = Len(results)
        /\ Len(results) = runCount
        /\ SameSamples(successfulTimes, NoErrorTimes(results))
        /\ HistRan =>
              /\ histTimes = NoErrorTimes(results)
              /\ SameSamples(histTimes, successfulTimes)

\* C10 witness: three outcomes, one failed, reported by both reporters.
C10_Witness ==
    /\ HistRan
    /\ Len(results) = 3
    /\ errorCount = 1
    /\ successfulTimes = <<0, 100>>
    /\ histTimes = <<100, 0>>

====
